---- MODULE Spec2Model ----
(***************************************************************************)
(* A model of tatty's Screen (src/src/index.js): the list of lines, the    *)
(* cursor, the cursor timer driven by the prompt/showCursor notifications, *)
(* and the operations write, writechar, writeln, prompt, setCursor, del,   *)
(* deleteln, clear and the helper splitLine.                               *)
(*                                                                         *)
(* A string is a sequence of one-character strings; a line is a record of  *)
(* its textContent and whether its class list holds 'prompt'.  Indices of  *)
(* the source are 0-based: lines[ i ] of the source is lines[i + 1] here.  *)
(***************************************************************************)
EXTENDS Integers, Sequences, FiniteSets, TLC

VARIABLES
    cols,         \* this.opts.cols
    lines,        \* this.lines
    cursor,       \* this.cursor, [x, y]
    cursorTimer,  \* TRUE while this.cursorTimer holds a timer
    call,         \* the last call: its name, arguments, outcome and the state it started
                  \* from; for a splitLine call under way, the text left and where it is
    left          \* the number of calls still to be made

vars == <<cols, lines, cursor, cursorTimer, call, left>>

(***************************************************************************)
(* Bounds of the model.                                                    *)
(***************************************************************************)
\* the column width the Screen of Spec is constructed with
Cols == 3
\* the number of calls a run of Spec makes
MaxCalls == 3
\* the number of calls a run of EditSpec makes
MaxEdits == 4
\* the number of writechar calls a run of TypeSpec makes
MaxTyped == 7
\* splitLine is applied to every string up to this length ...
MaxSplitLen == 7
\* ... under every column width up to this one
MaxSplitCols == 4

\* the width of the prompt placeholder
PromptWidth == 3

(***************************************************************************)
(* Strings.                                                                *)
(***************************************************************************)
Chars == {"a", " "}

Spaces(n) == [i \in 1..n |-> " "]

\* String.prototype.slice( start, end ) for 0 <= start
slice(s, start, end) == SubSeq(s, start + 1, IF end > Len(s) THEN Len(s) ELSE end)

\* every string over Chars of length n
RECURSIVE StringsOfLen(_)
StringsOfLen(n) ==
    IF n = 0 THEN {<<>>}
    ELSE {Append(s, c) : s \in StringsOfLen(n - 1), c \in Chars}

StringsUpTo(n) == UNION {StringsOfLen(k) : k \in 0..n}

(***************************************************************************)
(* splitLine                                                               *)
(***************************************************************************)
\* the scan of findLastSpacePosition from index i downward; -1 when no space is found
RECURSIVE scanSpace(_, _)
scanSpace(chars, i) ==
    IF i < 0 THEN -1
    ELSE IF i < Len(chars) /\ chars[i + 1] = " " THEN i
    ELSE scanSpace(chars, i - 1)

\* findLastSpacePosition with the scan started one index too far
findLastSpacePosition_late(chars, start) ==
    LET i == scanSpace(chars, start + 1)
    IN  IF i < 0 THEN cols ELSE i

\* findLastSpacePosition that returns 0 and not the column count when no space is found
findLastSpacePosition_front(chars, start) ==
    LET i == scanSpace(chars, start)
    IN  IF i < 0 THEN 0 ELSE i

findLastSpacePosition(chars, start) ==
    LET i == scanSpace(chars, start)
    IN  IF i < 0 THEN cols ELSE i

\* strip that leaves the character at end in chars
strip_keepEnd(chars, start, end) ==
    [tmp  |-> slice(chars, start, end),
     rest |-> slice(chars, end, Len(chars))]

\* strip( start, end ): the piece returned and what is left of chars
strip(chars, start, end) ==
    [tmp  |-> slice(chars, start, end),
     rest |-> slice(chars, end + 1, Len(chars))]

\* splitLoop that goes on only while chars is more than one character too long
RECURSIVE splitLoop_wide(_)
splitLoop_wide(chars) ==
    IF Len(chars) > cols + 1
    THEN LET s == strip(chars, 0, findLastSpacePosition(chars, cols))
         IN  <<s.tmp>> \o splitLoop_wide(s.rest)
    ELSE <<chars>>

RECURSIVE splitLoop(_)
splitLoop(chars) ==
    IF Len(chars) > cols
    THEN LET s == strip(chars, 0, findLastSpacePosition(chars, cols))
         IN  <<s.tmp>> \o splitLoop(s.rest)
    ELSE <<chars>>

splitLine(chars) ==
    IF Len(chars) <= cols THEN <<chars>> ELSE splitLoop(chars)

(***************************************************************************)
(* Lines                                                                   *)
(***************************************************************************)
newLine == [textContent |-> <<>>, prompt |-> FALSE]

textLine(s) == [textContent |-> s, prompt |-> FALSE]

\* whether lines[ i ] is a line
hasLine(L, i) == i >= 0 /\ i < Len(L)

\* Array.prototype.splice( position, 0, div )
spliceIn(L, position, div) ==
    SubSeq(L, 1, position) \o <<div>> \o SubSeq(L, position + 1, Len(L))

\* Array.prototype.splice( position, 1 )
spliceOut(L, position) ==
    SubSeq(L, 1, position) \o SubSeq(L, position + 2, Len(L))

appendLine(L, div, position) ==
    IF position > Len(L) THEN Append(L, div) ELSE spliceIn(L, position, div)

\* createLine() with append: true
createLine(L) == appendLine(L, newLine, Len(L))

RECURSIVE createLines(_, _)
createLines(L, offset) ==
    IF offset = 0 THEN L ELSE createLines(createLine(L), offset - 1)

(***************************************************************************)
(* Notifications: emit( 'prompt', flag ) runs the 'prompt' listener, which *)
(* emits showCursor( flag ), whose listener stops or starts the timer.     *)
(***************************************************************************)
\* emit( name, flag ) of the EventEmitter: the notification, and right after it, before
\* emit returns, what its listeners emitted in turn
emit(name, flag, heard) == <<[name |-> name, flag |-> flag]>> \o heard

\* emitPrompt with no listener for 'prompt'
emitPrompt_unheard(flag) == emit("prompt", flag, <<>>)

\* emit( 'prompt', flag ): the listener of 'prompt' emits showCursor( flag )
emitPrompt(flag) == emit("prompt", flag, emit("showCursor", flag, <<>>))

\* the timer after the events: the listener of showCursor stops it on a false flag and
\* starts it on a true one
RECURSIVE timerAfter(_, _)
timerAfter(timer, events) ==
    IF events = <<>> THEN timer
    ELSE timerAfter(IF Head(events).name = "showCursor" THEN Head(events).flag ELSE timer,
                    Tail(events))

(***************************************************************************)
(* The operations, each as the outcome of a call on lines L and cursor c.  *)
(***************************************************************************)
Outcome(L, c, events, threw) ==
    [lines |-> L, cursor |-> c, events |-> events, threw |-> threw]

Pos(x, y) == [x |-> x, y |-> y]

\* the loop of write that attaches newlines[i..] at the cursor
RECURSIVE attach(_, _, _, _, _)
attach(L, c, newlines, i, offset) ==
    IF i > Len(newlines) THEN Outcome(L, c, <<>>, FALSE)
    ELSE attach(appendLine(L, textLine(newlines[i]), c.y),
                Pos(Len(newlines[i]) - offset, c.y + 1),
                newlines, i + 1, offset)

\* the line's contents, extended with spaces when the cursor is beyond its end
extend(text, x) ==
    IF x > Len(text) THEN text \o Spaces(x - Len(text)) ELSE text

\* insertAt with chars put at the end of contents, wherever the cursor is
insertAt_end(contents, x, chars) == contents \o chars

\* chars put into contents at index x
insertAt(contents, x, chars) ==
    slice(contents, 0, x) \o chars \o slice(contents, x, Len(contents))

\* firstLine with cursor.y left as it is
firstLine_keepY(L, c) ==
    IF c.x < 0 THEN [lines |-> createLine(L), cursor |-> Pos(0, c.y)]
    ELSE [lines |-> L, cursor |-> c]

\* the start of write and writechar: with the cursor left of column 0 a line is created
\* and the cursor is put at (0, 0)
firstLine(L, c) ==
    IF c.x < 0 THEN [lines |-> createLine(L), cursor |-> Pos(0, 0)]
    ELSE [lines |-> L, cursor |-> c]

write(L, c, chars) ==
    IF chars = <<>> THEN Outcome(L, c, <<>>, FALSE)
    ELSE
    LET L1 == firstLine(L, c).lines
        c1 == firstLine(L, c).cursor
        L2 == IF c1.y > Len(L1) THEN createLines(L1, (c1.y - Len(L1)) + 1) ELSE L1
    IN
    IF ~hasLine(L2, c1.y) THEN Outcome(L2, c1, <<>>, TRUE)
    ELSE
    LET text     == L2[c1.y + 1].textContent
        contents == extend(text, c1.x)
        newline  == insertAt(contents, c1.x, chars)
        offset   == Len(contents) - c1.x
        c2       == Pos(c1.x + Len(chars), c1.y)
    IN
    IF Len(newline) <= cols
    THEN Outcome([L2 EXCEPT ![c1.y + 1].textContent = newline], c2, emitPrompt(FALSE), FALSE)
    ELSE
    LET r == attach(spliceOut(L2, c1.y), c2, splitLine(newline), 1, offset)
    IN  Outcome(r.lines, Pos(r.cursor.x, r.cursor.y - 1), emitPrompt(FALSE), FALSE)

\* writechar that starts a new line only when the cursor is beyond cols
writechar_late(L, c, chars) ==
    IF chars = <<>> THEN Outcome(L, c, <<>>, FALSE)
    ELSE
    LET L1 == firstLine(L, c).lines
        c1 == firstLine(L, c).cursor
        L2 == IF c1.x > cols THEN createLine(L1) ELSE L1
        c2 == IF c1.x > cols THEN Pos(0, c1.y + 1) ELSE c1
        r  == write(L2, c2, <<chars[1]>>)
    IN  IF r.threw THEN r
        ELSE Outcome(r.lines, r.cursor, r.events \o emitPrompt(FALSE), FALSE)

writechar(L, c, chars) ==
    IF chars = <<>> THEN Outcome(L, c, <<>>, FALSE)
    ELSE
    LET L1 == firstLine(L, c).lines
        c1 == firstLine(L, c).cursor
        L2 == IF c1.x >= cols THEN createLine(L1) ELSE L1
        c2 == IF c1.x >= cols THEN Pos(0, c1.y + 1) ELSE c1
        r  == write(L2, c2, <<chars[1]>>)
    IN  IF r.threw THEN r
        ELSE Outcome(r.lines, r.cursor, r.events \o emitPrompt(FALSE), FALSE)

\* the loop of writeln over the split lines
RECURSIVE putLines(_, _, _, _)
putLines(L, c, split, i) ==
    IF i > Len(split) THEN Outcome(L, c, <<>>, FALSE)
    ELSE putLines([createLine(L) EXCEPT ![Len(L) + 1].textContent = split[i]],
                  Pos(Len(split[i]), c.y), split, i + 1)

\* writeln with cursor.y left where it was
writeln_staleY(L, c, chars) ==
    IF chars = <<>>
    THEN Outcome(createLine(L), Pos(0, c.y), emitPrompt(FALSE), FALSE)
    ELSE
    LET r == putLines(L, c, splitLine(chars), 1)
    IN  Outcome(r.lines, r.cursor, emitPrompt(FALSE), FALSE)

writeln(L, c, chars) ==
    IF chars = <<>>
    THEN Outcome(createLine(L), Pos(0, Len(createLine(L)) - 1), emitPrompt(FALSE), FALSE)
    ELSE
    LET r == putLines(L, c, splitLine(chars), 1)
    IN  Outcome(r.lines, Pos(r.cursor.x, Len(r.lines) - 1), emitPrompt(FALSE), FALSE)

prompt(L, c) ==
    LET L1 == [createLine(L) EXCEPT ![Len(L) + 1] =
                   [textContent |-> Spaces(PromptWidth), prompt |-> TRUE]]
    IN  Outcome(L1, Pos(PromptWidth, Len(L1) - 1), emitPrompt(TRUE), FALSE)

setCursor(L, c, x, y) == Outcome(L, Pos(x, y), <<>>, FALSE)

\* atPromptStart with the column of an untagged line's start
atPromptStart_column0(L, c) == L[c.y + 1].prompt /\ c.x = 0

\* del's check for the start of a command prompt
atPromptStart(L, c) == L[c.y + 1].prompt /\ c.x = PromptWidth

\* del's move up and back: to the end of the line above
upAndBack(L, c) == Pos(Len(L[c.y].textContent), c.y - 1)

\* removeLast that leaves the line as it is and only steps the cursor back
removeLast_nothing(L, c) == Outcome(L, Pos(c.x - 1, c.y), <<>>, FALSE)

\* the end of del: the line at the cursor loses its last character, the cursor steps back
\* ( slice( 0, length - 1 ) of an empty string is the empty string )
removeLast(L, c) ==
    LET text == L[c.y + 1].textContent
        newline == slice(text, 0, IF Len(text) = 0 THEN 0 ELSE Len(text) - 1)
    IN  Outcome([L EXCEPT ![c.y + 1].textContent = newline], Pos(c.x - 1, c.y), <<>>, FALSE)

del(L, c) ==
    IF ~hasLine(L, c.y) THEN Outcome(L, c, <<>>, TRUE)
    ELSE IF atPromptStart(L, c) THEN Outcome(L, c, <<>>, FALSE)
    ELSE IF c.x = 0 /\ c.y = 0 THEN Outcome(L, c, <<>>, FALSE)
    ELSE removeLast(L, IF c.x = 0 THEN upAndBack(L, c) ELSE c)

\* deleteln( num ); given is FALSE when the argument is left out
deleteln(L, c, given, num) ==
    IF Len(L) = 0 THEN Outcome(L, c, <<>>, FALSE)
    ELSE IF ~given \/ num = 0 \/ num >= Len(L)
    THEN Outcome(spliceOut(L, Len(L) - 1), c, <<>>, FALSE)
    ELSE IF ~hasLine(L, num) THEN Outcome(L, c, <<>>, TRUE)
    ELSE Outcome(spliceOut(L, num), c, <<>>, FALSE)

clear(L, c) == Outcome(<<>>, Pos(-1, -1), <<>>, FALSE)

(***************************************************************************)
(* The state machine: a Screen and the calls made on it.                   *)
(***************************************************************************)
\* notified is the last call that emitted a notification, typed the first characters a
\* run of writechar calls was given; rest, before and pc belong to a splitLine call
NoCall ==
    [op |-> "constructor", prev |-> "none", chars |-> <<>>, given |-> FALSE, num |-> 0, x |-> 0, y |-> 0,
     lines |-> <<>>, cursor |-> Pos(-1, -1), events |-> <<>>, threw |-> FALSE, ret |-> <<>>,
     notified |-> "none", typed |-> <<>>, rest |-> <<>>, before |-> <<>>, pc |-> "done"]

\* the constructor: no lines, the cursor at (-1, -1), the cursor flashing
Init ==
    /\ cols = Cols
    /\ lines = <<>>
    /\ cursor = Pos(-1, -1)
    /\ cursorTimer = TRUE
    /\ call = NoCall
    /\ left = MaxCalls

\* the call record: c with what the call started from and how it ended
Made(c, r) ==
    [c EXCEPT !.prev = call.op, !.lines = lines, !.cursor = cursor,
              !.events = r.events, !.threw = r.threw,
              !.notified = IF r.events # <<>> THEN c.op ELSE call.notified]

Named(op) == [NoCall EXCEPT !.op = op]

\* the arguments the calls are made with
WriteTexts ==
    {<<>>, <<"a">>, <<" ">>, <<"a", "b">>, <<"b", " ", "a">>, <<"a", "b", "c", "d", "e">>}
WritecharTexts == {<<>>, <<"a">>, <<" ">>, <<"b", "a">>}
WritelnTexts ==
    {<<>>, <<"a">>, <<"a", "b">>, <<"a", " ", "b">>,
     <<"a", "b", "c", "d", "e">>, <<"a", "b", " ", "c", "d">>,
     <<"a", " ", "b", "c", " ", "d", "e", "f", "g", " ", "h">>}
CursorXs == 0..(Cols + 1)
CursorYs == 0..2
LineNums == 0..3

Write(chars) ==
    LET r == write(lines, cursor, chars)
    IN  /\ left > 0
        /\ lines' = r.lines
        /\ cursor' = r.cursor
        /\ cursorTimer' = timerAfter(cursorTimer, r.events)
        /\ call' = Made([Named("write") EXCEPT !.chars = chars], r)
        /\ left' = left - 1
        /\ UNCHANGED cols

Writechar(chars) ==
    LET r == writechar(lines, cursor, chars)
    IN  /\ left > 0
        /\ lines' = r.lines
        /\ cursor' = r.cursor
        /\ cursorTimer' = timerAfter(cursorTimer, r.events)
        /\ call' = Made([Named("writechar") EXCEPT !.chars = chars], r)
        /\ left' = left - 1
        /\ UNCHANGED cols

Writeln(chars) ==
    LET r == writeln(lines, cursor, chars)
    IN  /\ left > 0
        /\ lines' = r.lines
        /\ cursor' = r.cursor
        /\ cursorTimer' = timerAfter(cursorTimer, r.events)
        /\ call' = Made([Named("writeln") EXCEPT !.chars = chars], r)
        /\ left' = left - 1
        /\ UNCHANGED cols

Prompt ==
    LET r == prompt(lines, cursor)
    IN  /\ left > 0
        /\ lines' = r.lines
        /\ cursor' = r.cursor
        /\ cursorTimer' = timerAfter(cursorTimer, r.events)
        /\ call' = Made(Named("prompt"), r)
        /\ left' = left - 1
        /\ UNCHANGED cols

SetCursor(x, y) ==
    LET r == setCursor(lines, cursor, x, y)
    IN  /\ left > 0
        /\ lines' = r.lines
        /\ cursor' = r.cursor
        /\ call' = Made([Named("setCursor") EXCEPT !.x = x, !.y = y], r)
        /\ left' = left - 1
        /\ UNCHANGED <<cols, cursorTimer>>

Del ==
    LET r == del(lines, cursor)
    IN  /\ left > 0
        /\ lines' = r.lines
        /\ cursor' = r.cursor
        /\ call' = Made(Named("del"), r)
        /\ left' = left - 1
        /\ UNCHANGED <<cols, cursorTimer>>

Deleteln(given, num) ==
    LET r == deleteln(lines, cursor, given, num)
    IN  /\ left > 0
        /\ lines' = r.lines
        /\ cursor' = r.cursor
        /\ call' = Made([Named("deleteln") EXCEPT !.given = given, !.num = num], r)
        /\ left' = left - 1
        /\ UNCHANGED <<cols, cursorTimer>>

Clear ==
    LET r == clear(lines, cursor)
    IN  /\ left > 0
        /\ lines' = r.lines
        /\ cursor' = r.cursor
        /\ call' = Made(Named("clear"), r)
        /\ left' = left - 1
        /\ UNCHANGED <<cols, cursorTimer>>

Edit ==
    \/ \E chars \in WriteTexts : Write(chars)
    \/ \E chars \in WritecharTexts : Writechar(chars)
    \/ \E chars \in WritelnTexts : Writeln(chars)
    \/ Prompt
    \/ Del
    \/ \E num \in LineNums : Deleteln(TRUE, num)
    \/ Deleteln(FALSE, 0)
    \/ Clear

Next ==
    \/ Edit
    \/ \E x \in CursorXs, y \in CursorYs : SetCursor(x, y)

\* every operation, setCursor included
Spec == Init /\ [][Next]_vars

EditInit ==
    /\ cols = Cols
    /\ lines = <<>>
    /\ cursor = Pos(-1, -1)
    /\ cursorTimer = TRUE
    /\ call = NoCall
    /\ left = MaxEdits

\* the operations without setCursor
EditSpec == EditInit /\ [][Edit]_vars

(***************************************************************************)
(* Typing: a new Screen and writechar calls only, each with a non-empty    *)
(* argument.                                                               *)
(***************************************************************************)
TypeInit ==
    /\ cols = Cols
    /\ lines = <<>>
    /\ cursor = Pos(-1, -1)
    /\ cursorTimer = TRUE
    /\ call = NoCall
    /\ left = MaxTyped

TypedTexts == {<<"a">>, <<" ">>, <<"b", "a">>}

Type(chars) ==
    LET r == writechar(lines, cursor, chars)
    IN  /\ left > 0
        /\ lines' = r.lines
        /\ cursor' = r.cursor
        /\ cursorTimer' = timerAfter(cursorTimer, r.events)
        /\ call' = [Made([Named("writechar") EXCEPT !.chars = chars], r)
                        EXCEPT !.typed = Append(call.typed, chars[1])]
        /\ left' = left - 1
        /\ UNCHANGED cols

TypeNext == \E chars \in TypedTexts : Type(chars)

TypeSpec == TypeInit /\ [][TypeNext]_vars

(***************************************************************************)
(* splitLine on its own: a Screen of any small width, and the helper       *)
(* applied to any small string.                                            *)
(***************************************************************************)
SplitInit ==
    /\ cols \in 1..MaxSplitCols
    /\ lines = <<>>
    /\ cursor = Pos(-1, -1)
    /\ cursorTimer = TRUE
    /\ call = NoCall
    /\ left = 0

SplitLine(chars) ==
    /\ call' = [Named("splitLine") EXCEPT !.chars = chars, !.ret = splitLine(chars)]
    /\ UNCHANGED <<cols, lines, cursor, cursorTimer, left>>

SplitNext == \E chars \in StringsUpTo(MaxSplitLen) : SplitLine(chars)

SplitSpec == SplitInit /\ [][SplitNext]_vars

(***************************************************************************)
(* splitLine one loop iteration at a time: call.rest is chars as strip     *)
(* leaves it, call.before is chars as the last iteration found it,         *)
(* call.ret is output, and call.pc tells where the call stands.            *)
(***************************************************************************)
HardCutText == <<"a", "a", "a", "a", "a", "a", "a", "a", "a", "a">>

LoopTexts == StringsUpTo(MaxSplitLen) \cup {HardCutText}

LoopInit == SplitInit

\* the call up to the loop, or to the early return of a text of one line
Enter(chars) ==
    /\ call.pc = "done"
    /\ call' = IF Len(chars) <= cols
               THEN [Named("splitLine") EXCEPT !.chars = chars, !.rest = chars, !.before = chars,
                                               !.ret = <<chars>>, !.pc = "done"]
               ELSE [Named("splitLine") EXCEPT !.chars = chars, !.rest = chars, !.before = chars,
                                               !.ret = <<>>, !.pc = "entered"]
    /\ UNCHANGED <<cols, lines, cursor, cursorTimer, left>>

\* one iteration of the while loop
Iterate ==
    LET s == strip(call.rest, 0, findLastSpacePosition(call.rest, cols))
    IN  /\ call.pc \in {"entered", "looped"}
        /\ Len(call.rest) > cols
        /\ call' = [call EXCEPT !.before = call.rest, !.rest = s.rest,
                                !.ret = Append(call.ret, s.tmp), !.pc = "looped"]
        /\ UNCHANGED <<cols, lines, cursor, cursorTimer, left>>

\* the loop is left, the last piece pushed and output returned
Finish ==
    /\ call.pc \in {"entered", "looped"}
    /\ Len(call.rest) <= cols
    /\ call' = [call EXCEPT !.ret = Append(call.ret, call.rest), !.pc = "done"]
    /\ UNCHANGED <<cols, lines, cursor, cursorTimer, left>>

LoopNext ==
    \/ \E chars \in LoopTexts : Enter(chars)
    \/ Iterate
    \/ Finish

LoopSpec == LoopInit /\ [][LoopNext]_vars

(***************************************************************************)
(* The claims.                                                             *)
(***************************************************************************)
Text(L, i) == L[i + 1].textContent

\* the strings of ss joined with single spaces
RECURSIVE Join(_)
Join(ss) ==
    IF Len(ss) = 0 THEN <<>>
    ELSE IF Len(ss) = 1 THEN ss[1]
    ELSE ss[1] \o <<" ">> \o Join(Tail(ss))

\* C1: without setCursor, whenever the buffer is non-empty the cursor is on a line of it:
\* 0 <= cursor.y < number of lines
C1_CursorOnALine ==
    lines # <<>> => (0 <= cursor.y /\ cursor.y < Len(lines))

\* C2: joining the elements of splitLine(s) with single spaces gives s back
C2_JoinGivesInput ==
    call.op = "splitLine" => Join(call.ret) = call.chars

\* C3: splitLine(s) is a non-empty sequence, each element of it (the last included) is at
\* most cols long, and it is <<s>> when s is at most cols long
C3_SplitWithinCols ==
    call.op = "splitLine" =>
        /\ Len(call.ret) >= 1
        /\ \A i \in 1..Len(call.ret) : Len(call.ret[i]) <= cols
        /\ Len(call.chars) <= cols => call.ret = <<call.chars>>

\* a string longer than cols split into three or more lines, one of them cols long and
\* the last one not empty
C3_Witness ==
    /\ call.op = "splitLine"
    /\ Len(call.chars) > cols
    /\ Len(call.ret) >= 3
    /\ \E i \in 1..Len(call.ret) : Len(call.ret[i]) = cols
    /\ call.ret[Len(call.ret)] # <<>>

\* the larger of two numbers
Max(m, n) == IF m >= n THEN m ELSE n

\* c, with spaces after it up to length x when x is beyond its end
Padded(c, x) == [i \in 1..Max(Len(c), x) |-> IF i <= Len(c) THEN c[i] ELSE " "]

\* a write of a non-empty text with the cursor at x >= 0 on an existing line whose
\* content, padded to the cursor, still fits in cols with the text
C4_Case ==
    /\ call.op = "write"
    /\ call.chars # <<>>
    /\ call.cursor.x >= 0
    /\ hasLine(call.lines, call.cursor.y)
    /\ Max(Len(Text(call.lines, call.cursor.y)), call.cursor.x) + Len(call.chars) <= cols

\* C4: such a write makes line y p[0..x) + text + p[x..], p the padded content, moves the
\* cursor to (x + |text|, y) and leaves every other line and the number of lines as they were
C4_WriteInPlace ==
    C4_Case =>
        LET x == call.cursor.x
            y == call.cursor.y
            p == Padded(Text(call.lines, y), x)
        IN  /\ ~call.threw
            /\ Len(lines) = Len(call.lines)
            /\ Text(lines, y) = SubSeq(p, 1, x) \o call.chars \o SubSeq(p, x + 1, Len(p))
            /\ lines[y + 1].prompt = call.lines[y + 1].prompt
            /\ cursor = Pos(x + Len(call.chars), y)
            /\ \A i \in 1..Len(lines) : i # y + 1 => lines[i] = call.lines[i]

\* a write in the middle of a line, between other lines
C4_Witness ==
    /\ C4_Case
    /\ Len(call.lines) >= 3
    /\ call.cursor.y = 1
    /\ call.cursor.x > 0
    /\ call.cursor.x < Len(Text(call.lines, 1))
    /\ Len(Text(lines, 1)) = Len(Text(call.lines, 1)) + Len(call.chars)

\* a write behind the end of a line, which pads the line with spaces
C4_PaddedWitness ==
    /\ C4_Case
    /\ call.cursor.x > Len(Text(call.lines, call.cursor.y))
    /\ Len(Text(call.lines, call.cursor.y)) > 0

\* C5: write(text), 0 < |text| <= cols, on an empty buffer with the cursor at (-1, -1)
\* leaves the single line text and the cursor at (|text|, 0); and clear() leaves an empty
\* buffer and the cursor at (-1, -1), whatever the state was
C5_WriteOnEmpty ==
    /\ (/\ call.op = "write"
        /\ call.chars # <<>>
        /\ Len(call.chars) <= cols
        /\ call.lines = <<>>
        /\ call.cursor = Pos(-1, -1))
       => (/\ ~call.threw
           /\ lines = <<[textContent |-> call.chars, prompt |-> FALSE]>>
           /\ cursor = Pos(Len(call.chars), 0))
    /\ call.op = "clear" => (lines = <<>> /\ cursor = Pos(-1, -1) /\ ~call.threw)

\* a write of two characters right after a clear()
C5_Witness ==
    /\ call.op = "write"
    /\ call.prev = "clear"
    /\ call.lines = <<>>
    /\ call.cursor = Pos(-1, -1)
    /\ Len(call.chars) = 2
    /\ Len(lines) = 1
    /\ cursor = Pos(2, 0)

\* C6: write(text), text non-empty, with cursor.x >= 0 and cursor.y at or beyond the
\* number of lines ends without an error and with at least cursor.y + 1 lines
C6_WriteBeyondLastLine ==
    (/\ call.op = "write"
     /\ call.chars # <<>>
     /\ call.cursor.x >= 0
     /\ call.cursor.y >= Len(call.lines))
    => (~call.threw /\ Len(lines) >= call.cursor.y + 1)

\* where each line of a split starts in the string that was split: every line is followed
\* by one consumed character
RECURSIVE StartOf(_, _)
StartOf(split, j) ==
    IF j = 1 THEN 0 ELSE StartOf(split, j - 1) + Len(split[j - 1]) + 1

\* a write of a non-empty text with the cursor within an existing line (0 <= x <= |line|)
\* that makes the line longer than cols
C7_Case ==
    /\ call.op = "write"
    /\ call.chars # <<>>
    /\ hasLine(call.lines, call.cursor.y)
    /\ call.cursor.x >= 0
    /\ call.cursor.x <= Len(Text(call.lines, call.cursor.y))
    /\ Len(Text(call.lines, call.cursor.y)) + Len(call.chars) > cols

\* C7: after a write that reflows the line, the cursor is on the wrapped line that holds
\* the insertion point, the position right after the inserted text
C7_CursorOnInsertionLine ==
    C7_Case =>
        LET x == call.cursor.x
            y == call.cursor.y
            c == Text(call.lines, y)
            whole == SubSeq(c, 1, x) \o call.chars \o SubSeq(c, x + 1, Len(c))
            split == splitLine(whole)
            point == x + Len(call.chars)
        IN  \E j \in 1..Len(split) :
                /\ cursor.y = y + (j - 1)
                /\ StartOf(split, j) <= point
                /\ point <= StartOf(split, j) + Len(split[j])

\* the texts of the lines of L
Texts(L) == [i \in 1..Len(L) |-> L[i].textContent]

\* s without its last character (s itself when it is empty)
ButLast(s) == SubSeq(s, 1, Len(s) - 1)

\* a del() with the cursor at column 0 of an existing line below the first
C8_Case ==
    /\ call.op = "del"
    /\ call.cursor.x = 0
    /\ call.cursor.y > 0
    /\ hasLine(call.lines, call.cursor.y)

\* C8 as stated: such a del() moves the cursor to the end of the line above and changes
\* no line's content
C8_MovesWithoutDeleting ==
    C8_Case =>
        /\ cursor = Pos(Len(Text(call.lines, call.cursor.y - 1)), call.cursor.y - 1)
        /\ Texts(lines) = Texts(call.lines)

\* C8 as amended: such a del() moves the cursor to the line above and, in the same call,
\* takes that line's last character: the line above is left without its last character,
\* the cursor is at (length of the line above before the call - 1, y - 1), and every
\* other line is as it was
C8_MovesAndDeletes ==
    C8_Case =>
        LET y == call.cursor.y
            above == Text(call.lines, y - 1)
        IN  /\ ~call.threw
            /\ Len(lines) = Len(call.lines)
            /\ Text(lines, y - 1) = ButLast(above)
            /\ cursor = Pos(Len(above) - 1, y - 1)
            /\ \A i \in 1..Len(lines) : i # y => lines[i] = call.lines[i]

\* a del() at column 0 below a line of two or more characters, which lost its last one
C8_Witness ==
    /\ C8_Case
    /\ Len(Text(call.lines, call.cursor.y - 1)) >= 2
    /\ Len(Text(lines, call.cursor.y - 1)) = Len(Text(call.lines, call.cursor.y - 1)) - 1

\* C9: del() with the cursor at column 3 of a line tagged prompt changes neither the lines
\* nor the cursor; and prompt() appends a line of 3 characters tagged prompt and puts the
\* cursor at (3, last index), so that del() calls right after prompt() change nothing
C9_DelKeepsPrompt ==
    /\ (/\ call.op = "del"
        /\ hasLine(call.lines, call.cursor.y)
        /\ call.lines[call.cursor.y + 1].prompt
        /\ call.cursor.x = 3)
       => (lines = call.lines /\ cursor = call.cursor /\ ~call.threw)
    /\ call.op = "prompt" =>
        /\ Len(lines) = Len(call.lines) + 1
        /\ SubSeq(lines, 1, Len(call.lines)) = call.lines
        /\ lines[Len(lines)].prompt
        /\ Len(lines[Len(lines)].textContent) = 3
        /\ cursor = Pos(3, Len(lines) - 1)
    /\ (call.op = "del" /\ call.prev = "prompt") => (lines = call.lines /\ cursor = call.cursor)

\* a second del() after a prompt(): the prompt line and the cursor are still as prompt()
\* left them
C9_Witness ==
    /\ call.op = "del"
    /\ call.prev = "del"
    /\ lines # <<>>
    /\ cursor = Pos(3, Len(lines) - 1)
    /\ lines[Len(lines)] = [textContent |-> <<" ", " ", " ">>, prompt |-> TRUE]
    /\ call.lines = lines
    /\ call.cursor = cursor

\* C10: deleteln(index) does nothing on an empty buffer, removes the line at index when
\* 0 <= index < number of lines, and removes the last line when index is left out or is
\* the number of lines or more; all other lines keep their order
C10_DeletelnRemovesIndex ==
    call.op = "deleteln" =>
        LET n == Len(call.lines)
            at == IF call.given /\ 0 <= call.num /\ call.num < n THEN call.num ELSE n - 1
        IN  /\ ~call.threw
            /\ n = 0 => lines = call.lines
            /\ n > 0 => lines = SubSeq(call.lines, 1, at) \o SubSeq(call.lines, at + 2, n)

\* the lines writeln(chars) is to append: the split of chars, one empty line for no chars
Appended(chars) == IF chars = <<>> THEN <<<<>>>> ELSE splitLine(chars)

\* C11: writeln(text) keeps the lines there are and appends the lines of splitLine(text)
\* in order (one empty line when text is empty); the cursor ends at
\* (length of the last appended line, last index)
C11_WritelnAppends ==
    call.op = "writeln" =>
        LET new == Appended(call.chars)
            n == Len(call.lines)
        IN  /\ ~call.threw
            /\ Len(lines) = n + Len(new)
            /\ SubSeq(lines, 1, n) = call.lines
            /\ \A i \in 1..Len(new) : lines[n + i] = [textContent |-> new[i], prompt |-> FALSE]
            /\ cursor = Pos(Len(new[Len(new)]), Len(lines) - 1)

\* a writeln of a text split into three or more lines, below lines that were there, with
\* the cursor elsewhere before
C11_Witness ==
    /\ call.op = "writeln"
    /\ call.lines # <<>>
    /\ Len(lines) >= Len(call.lines) + 3
    /\ call.cursor.y # Len(call.lines) - 1
    /\ cursor.y = Len(lines) - 1

\* the texts of the lines of L, one after the other
RECURSIVE Flat(_)
Flat(L) == IF L = <<>> THEN <<>> ELSE L[1].textContent \o Flat(Tail(L))

\* C12: after n >= 1 writechar calls on a new Screen there are ceil(n / cols) lines, each
\* but the last cols long and none longer, which together read the characters typed, and
\* the cursor is at (length of the last line, last index)
C12_TypedLines ==
    LET n == Len(call.typed)
    IN  n >= 1 =>
            /\ ~call.threw
            /\ Len(lines) = (n + cols - 1) \div cols
            /\ \A i \in 1..Len(lines) : Len(lines[i].textContent) <= cols
            /\ \A i \in 1..(Len(lines) - 1) : Len(lines[i].textContent) = cols
            /\ Flat(lines) = call.typed
            /\ cursor = Pos(Len(lines[Len(lines)].textContent), Len(lines) - 1)

\* a character typed with the cursor at column cols of the second line: it starts the third
C12_Witness ==
    /\ Len(call.typed) = 2 * cols + 1
    /\ call.cursor = Pos(cols, 1)
    /\ Len(lines) = 3
    /\ cursor = Pos(1, 2)

\* C13: without setCursor, no call reads or edits a line that is not there: none ends in
\* an error
C13_NoCallThrows == ~call.threw

\* C14: the cursor never leaves x >= -1 and y >= -1
C14_CursorFromMinusOne == cursor.x >= -1 /\ cursor.y >= -1

\* C15: every prompt(flag) notification is followed at once by showCursor with the same
\* flag; only prompt(), writeln and write and writechar with a text notify, prompt() with
\* true and the others with false; and the most recent flag, which the cursor timer keeps,
\* is true exactly when the last call that notified was prompt()
C15_PromptThenShowCursor ==
    LET ev == call.events
        writes == {"write", "writechar"}
    IN  /\ \A i \in 1..Len(ev) :
               ev[i].name = "prompt" =>
                   /\ i < Len(ev)
                   /\ ev[i + 1] = [name |-> "showCursor", flag |-> ev[i].flag]
        /\ ev # <<>> =>
               /\ call.op \in {"prompt", "writeln"} \cup writes
               /\ \A i \in 1..Len(ev) : ev[i].flag = (call.op = "prompt")
        /\ (call.op \in {"del", "deleteln", "clear", "setCursor"}
               \/ (call.op \in writes /\ call.chars = <<>>)) => ev = <<>>
        /\ (call.op \in {"prompt", "writeln"}
               \/ (call.op \in writes /\ call.chars # <<>> /\ ~call.threw)) => ev # <<>>
        /\ call.notified # "none" => (cursorTimer <=> call.notified = "prompt")

\* a writechar right after a prompt(): write's notification and writechar's own, each with
\* its showCursor, and the timer stopped
C15_Witness ==
    /\ call.op = "writechar"
    /\ call.prev = "prompt"
    /\ Len(call.events) = 4
    /\ call.notified = "writechar"
    /\ ~cursorTimer

\* C16: for every text and every cols > 0 splitLine terminates: each iteration of its loop
\* leaves the remaining text at least one character shorter, with a space found or with
\* the hard cut, so the iterations made never outnumber the characters taken, and a call
\* that has not returned can always take its next step
C16_LoopShrinks ==
    /\ call.pc = "looped" =>
           /\ Len(call.rest) < Len(call.before)
           /\ Len(call.ret) <= Len(call.chars) - Len(call.rest)
    /\ call.pc # "done" => ENABLED (Iterate \/ Finish)

\* an iteration that found a space and one that took the hard cut
C16_Witness ==
    /\ call.pc = "looped"
    /\ Len(call.ret) = 2
    /\ \E i \in 1..(cols + 1) : call.chars[i] = " "
    /\ \A i \in 1..(cols + 1) : call.before[i] # " "

\* the indices up to cols at which text holds a space
SpacesUpTo(text) == {i \in 0..cols : i < Len(text) /\ text[i + 1] = " "}

\* the greatest member of a set of indices
Greatest(S) == CHOOSE i \in S : \A j \in S : j <= i

\* C18, the rule: while the remaining text is longer than cols, with a space at an index
\* up to cols the next output line is the text before the last such space and that space
\* is consumed, and with none the next output line is the first cols characters and
\* cols + 1 characters are consumed
C18_Rule ==
    call.pc = "looped" =>
        LET text  == call.before
            piece == call.ret[Len(call.ret)]
            cut   == IF SpacesUpTo(text) # {} THEN Greatest(SpacesUpTo(text)) ELSE cols
        IN  /\ piece = slice(text, 0, cut)
            /\ call.rest = slice(text, cut + 1, Len(text))

\* C18 as stated: the rule, and "aaaaaaaaaa" split at 4 columns gives "aaaa", "aaaa", "aa"
C18_HardCutLeavesTwo ==
    /\ C18_Rule
    /\ (call.pc = "done" /\ call.chars = HardCutText /\ cols = 4) =>
           call.ret = <<<<"a", "a", "a", "a">>, <<"a", "a", "a", "a">>, <<"a", "a">>>>

\* C18 amended: the rule, by which "aaaaaaaaaa" split at 4 columns gives "aaaa", "aaaa", ""
\* (each hard cut consumes five characters)
C18_HardCutLeavesNone ==
    /\ C18_Rule
    /\ (call.pc = "done" /\ call.chars = HardCutText /\ cols = 4) =>
           call.ret = <<<<"a", "a", "a", "a">>, <<"a", "a", "a", "a">>, <<>>>>

\* the example has returned
C18_Witness ==
    /\ call.pc = "done"
    /\ call.chars = HardCutText
    /\ cols = 4
    /\ Len(call.ret) = 3

\* the line write works on: line 0 at column 0 when the cursor is left of column 0, and
\* the cursor's line and column otherwise
WrittenAt == IF call.cursor.x < 0 THEN Pos(0, 0) ELSE call.cursor

\* the content write gives the line before any wrapping
NewContent ==
    LET p == Padded(Text(call.lines, WrittenAt.y), WrittenAt.x)
    IN  SubSeq(p, 1, WrittenAt.x) \o call.chars \o SubSeq(p, WrittenAt.x + 1, Len(p))

\* a write of a non-empty text that makes a line of the buffer longer than cols
C17_Case ==
    /\ call.op = "write"
    /\ call.chars # <<>>
    /\ hasLine(call.lines, WrittenAt.y)
    /\ Len(NewContent) > cols

\* C17: when write(text) makes line y longer than cols, the buffer afterwards is the
\* buffer before with line y replaced by the k lines of splitLine(new content) at
\* y..y+k-1; the lines before y and those after it are unchanged and in order, the number
\* of lines grows by k - 1 and cursor.y ends at y + k - 1
C17_ReflowReplacesLine ==
    C17_Case =>
        LET y   == WrittenAt.y
            new == splitLine(NewContent)
            k   == Len(new)
            n   == Len(call.lines)
        IN  /\ ~call.threw
            /\ Len(lines) = n + k - 1
            /\ \A i \in 1..y : lines[i] = call.lines[i]
            /\ \A i \in 1..k : y + i <= Len(lines) /\ Text(lines, y + i - 1) = new[i]
            /\ \A i \in (y + 2)..n :
                   i + k - 1 <= Len(lines) /\ lines[i + k - 1] = call.lines[i]
            /\ cursor.y = y + k - 1

\* C17 for a write with the cursor at a column x >= 0
C17_ReflowFromColumn ==
    call.cursor.x >= 0 => C17_ReflowReplacesLine

\* C19: with cols >= 3, whatever write, writechar, writeln, prompt, del, deleteln, clear
\* and setCursor calls were made, every line of the buffer is at most cols long
C19_LinesWithinCols ==
    cols >= 3 => \A i \in 1..Len(lines) : Len(lines[i].textContent) <= cols

\* a write with the cursor set beyond cols has wrapped its line
C19_Witness ==
    /\ call.op = "write"
    /\ call.prev = "setCursor"
    /\ call.cursor.x > cols
    /\ ~call.threw
    /\ Len(lines) > Len(call.lines)
    /\ \E i \in 1..Len(lines) : Len(lines[i].textContent) = cols

\* C20: without setCursor, every line tagged prompt is at least as long as the prompt's
\* placeholder of 3 characters: no del() shortens a prompt line below it
C20_PromptLineKeepsPlaceholder ==
    \A i \in 1..Len(lines) : lines[i].prompt => Len(lines[i].textContent) >= PromptWidth

====
